---- MODULE Spec2Model ----
(***************************************************************************)
(* Model of src/index.js of twitch-viewbot-protection: the periodic poll   *)
(* callback, fetchViewerCount / refreshAccessToken, the axios 429          *)
(* interceptor and the chat listener, as one event-loop state machine.     *)
(* Every action is one run-to-completion turn of the Node.js event loop:   *)
(* it starts at a timer, a network response or a chat event and runs up to *)
(* the next await on network I/O or on a timer.                            *)
(* Times are milliseconds as returned by Date.now().                       *)
(***************************************************************************)
EXTENDS Integers, Sequences, FiniteSets, TLC

\* ---------------------------------------------------------------- bounds
MaxTicks == 2          \* timer ticks of the poll setInterval that are explored
Max429 == 2            \* 429 answers the two endpoints give in one run
MaxChatEvents == 2     \* chat events delivered by the chat transport
MaxInfluxEvents == 2   \* raided and hosted events delivered by the chat transport
MaxPushes == 11        \* samples pushed onto the two histories, one beyond HISTORY_LENGTH
MaxEvaluations == 3    \* runs of the classifier on successive samples
Now0 == 1000000000     \* Date.now() when the process starts

\* ------------------------------------------------- configuration (.env)
pollInterval == 30000              \* Number(POLL_INTERVAL)
threshold == 2                     \* Number(THRESHOLD)
cacheTTLHighViewers == 20000       \* Number(CACHE_TTL_HIGH_VIEWERS)
viewersThreshold == 5000           \* Number(VIEWERS_THRESHOLD), the default
CacheTTLConfigs == {30000, 2000000000}   \* values of CACHE_TTL: one poll interval, and one beyond the clock
ExpiresInValues == {60}       \* expires_in (seconds) reported by the credential issuer
ViewerCounts == {5000, 6000}       \* viewer_count values the streams endpoint reports
Usernames == {"Alice", "alice", "nightbot"}   \* user.username of chat events
BlacklistConfig == {"NightBot"}    \* entries of BOT_BLACKLIST
InfluxCounts == {3, 9}             \* raidViewers / hostViewers of raided and hosted events
\* <<viewers, chatterCount>> of successive cycles
HistorySamples == {<<5000, 0>>, <<6000, 1>>}
StatsSamples == {<<v, c>> : v \in {0, 50, 500}, c \in {0, 5, 8, 12}}

\* ------------------------------------------------------ program constants
HELIX_RATE_LIMIT_PER_MINUTE == 800
HISTORY_LENGTH == 10
TokenLeadTime == 60000

Max(a, b) == IF a >= b THEN a ELSE b
Min(a, b) == IF a <= b THEN a ELSE b
CeilDiv(a, b) == (a + b - 1) \div b
\* Math.round of the non-negative fraction num/den
Round(num, den) == (2 * num + den) \div (2 * den)

minHelixInterval == CeilDiv(60000, HELIX_RATE_LIMIT_PER_MINUTE)
interval == Max(pollInterval, minHelixInterval)

toLowerCase(s) ==
  CASE s = "Alice" -> "alice"
    [] s = "NightBot" -> "nightbot"
    [] OTHER -> s

botBlacklistAsConfigured == BlacklistConfig

\* BOT_BLACKLIST.split(',').map(b => b.trim().toLowerCase())
botBlacklist == {toLowerCase(b) : b \in BlacklistConfig}

RECURSIVE SumSeq(_)
SumSeq(s) == IF s = <<>> THEN 0 ELSE Head(s) + SumSeq(Tail(s))

PushHistoryShiftEarly(h, x) ==
  LET p == Append(h, x) IN IF Len(p) >= HISTORY_LENGTH THEN Tail(p) ELSE p

\* push followed by the shift that keeps at most HISTORY_LENGTH samples
PushHistory(h, x) ==
  LET p == Append(h, x) IN IF Len(p) > HISTORY_LENGTH THEN Tail(p) ELSE p

\* ------------------------------------------------------------------ state
VARIABLES
  alive,              \* the Node.js process is running
  now,                \* Date.now()
  nextTick,           \* when the poll setInterval fires next
  ticks,              \* poll callbacks started so far
  cacheTTL,           \* Number(CACHE_TTL)
  accessToken,        \* 0 is the start-up value, n > 0 the n-th token the issuer returned
  tokenExpiry,
  lastRefresh,        \* history: the latest refresh that succeeded (when, reported lifetime, token)
  answered429,        \* 429 answers given so far
  viewers,
  cachedViewerCount,
  lastFetchedTime,
  cachedChatters,
  chatCountMap,
  viewerHistory,
  chatterHistory,
  lastStats,
  locals,             \* history: the constants computed by the latest run of the callback's tail
  anomalyCounter,     \* anomaly_detected_total
  dbRows,             \* rows inserted into the stats table
  cyc,                \* the poll callbacks: where each one stands
  lastRead,           \* history: the latest viewer-count read that returned
  chatLog,            \* history: the chat events delivered, with the number of cycles that counted each
  live,               \* history: events recorded into the accumulators and still held there
  lastCounted,        \* history: events counted by the latest completed cycle
  influx              \* history: the latest raided and hosted counts, the kind of the latest event, their number

clockVars == <<now, nextTick, ticks>>
tokenVars == <<accessToken, tokenExpiry, lastRefresh>>
cacheVars == <<cachedViewerCount, lastFetchedTime>>
statsOut == <<viewerHistory, chatterHistory, lastStats, locals, anomalyCounter, dbRows>>
chatVars == <<cachedChatters, chatCountMap, chatLog, live, lastCounted>>
cycleOut == <<viewerHistory, chatterHistory, lastStats, locals, anomalyCounter, dbRows,
              cachedChatters, chatCountMap, chatLog, live, lastCounted>>
vars == <<alive, cacheTTL, influx, viewers, cyc, lastRead, answered429, clockVars, tokenVars, cacheVars, cycleOut>>

Cycles == 1..MaxTicks
MaxTime == Now0 + (MaxTicks + 1) * interval

\* pc: idle (not started), refresh / fetch (awaiting the POST / the GET),
\* refreshSleep / fetchSleep (the interceptor's setTimeout), done,
\* refreshFailed / fetchFailed (the callback's promise rejected at that await);
\* attempts: requests sent for the pending axios call; wake: end of the sleep;
\* refreshed, seen, ttl, gap: what the pending read did and saw at its TTL check
CycleAt(pc) == [pc |-> pc, attempts |-> 0, wake |-> 0, refreshed |-> FALSE,
                seen |-> 0, ttl |-> 0, gap |-> 0]
IdleCycle == CycleAt("idle")

Init ==
  /\ alive = TRUE
  /\ now = Now0
  /\ nextTick = Now0 + interval
  /\ ticks = 0
  /\ cacheTTL \in CacheTTLConfigs
  /\ accessToken = 0
  /\ tokenExpiry = 0
  /\ lastRefresh = [at |-> 0, expires_in |-> 0, token |-> 0]
  /\ answered429 = 0
  /\ influx = [raid |-> 0, host |-> 0, kind |-> "none", events |-> 0]
  /\ viewers = 0
  /\ cachedViewerCount = 0
  /\ lastFetchedTime = 0
  /\ cachedChatters = {}
  /\ chatCountMap = <<>>
  /\ viewerHistory = <<>>
  /\ chatterHistory = <<>>
  /\ lastStats = [raid_viewers |-> 0, host_viewers |-> 0, spike_detected |-> FALSE]
  /\ locals = [viewersSum |-> 0, viewersLen |-> 0, chattersSum |-> 0, chattersLen |-> 0,
               dynamicThresh |-> 0, organicNum |-> 0, artificialNum |-> 0]
  /\ anomalyCounter = 0
  /\ dbRows = <<>>
  /\ cyc = [i \in Cycles |-> IdleCycle]
  /\ lastRead = [cycle |-> 0, refreshed |-> FALSE, seen |-> 0, ttl |-> 0, gap |-> 0,
                  fetched |-> FALSE, value |-> 0]
  /\ chatLog = <<>>
  /\ live = {}
  /\ lastCounted = {}

\* ------------------------------------------------- fetchViewerCount parts
ExpiryInSeconds(t, expires_in) == t + expires_in

\* Date.now() + res.data.expires_in * 1000
ExpiryAfter(t, expires_in) == t + expires_in * 1000

TokenStaleNoLead(t, expiry) == t > expiry

\* Date.now() > tokenExpiry - 60000
TokenStale(t, expiry) == t > expiry - TokenLeadTime

ttlForAtThreshold(v) == IF v >= viewersThreshold THEN cacheTTLHighViewers ELSE cacheTTL

\* viewers > viewersThreshold ? cacheTTLHighViewers : cacheTTL
ttlFor(v) == IF v > viewersThreshold THEN cacheTTLHighViewers ELSE cacheTTL

CacheExpiredAtEqual(t, fetchedAt, ttl) == t - fetchedAt >= ttl

\* Date.now() - lastFetchedTime > ttl
CacheExpired(t, fetchedAt, ttl) == t - fetchedAt > ttl

\* res.data.data[0]?.viewer_count || 0
ViewerCountOf(data) == IF Len(data) = 0 THEN 0 ELSE data[1].viewer_count

\* res.data.data of the streams endpoint: empty when the channel is offline
StreamsData == {<<>>} \cup {<<[viewer_count |-> n]>> : n \in ViewerCounts}

clearNothing(s) == s

\* Set.prototype.clear / Map.prototype.clear
clear(s) == {}

\* ------------------------------------------------- poll callback, the tail
SpikeAboveAverage(v, h) == v * Len(h) > SumSeq(h)

\* viewers > avgViewers * 1.5, the average being SumSeq(h) / Len(h)
Spike(v, h) == 2 * v * Len(h) > 3 * SumSeq(h)

dynamicThreshFloor(ch) == Max(threshold, (6 * SumSeq(ch)) \div (5 * Len(ch)))

\* Math.max(threshold, Math.ceil(avgChatters * 1.2))
dynamicThresh(ch) == Max(threshold, CeilDiv(6 * SumSeq(ch), 5 * Len(ch)))

OrganicNumUncapped(v, chatterCount, ch, spike) ==
  IF spike THEN SumSeq(ch) * dynamicThresh(ch)
           ELSE Min(v, chatterCount * dynamicThresh(ch)) * Len(ch)

\* organic as a fraction over Len(ch)
OrganicNum(v, chatterCount, ch, spike) ==
  IF spike THEN Min(v * Len(ch), SumSeq(ch) * dynamicThresh(ch))
           ELSE Min(v, chatterCount * dynamicThresh(ch)) * Len(ch)

\* Math.max(0, viewers - organic) as a fraction over Len(ch)
ArtificialNum(v, orgNum, ch) == Max(0, v * Len(ch) - orgNum)

ComposeStatsFromScratch(v, chatterCount, orgNum, artNum, n, spike, prev) ==
  [total_viewers |-> v, unique_chatters |-> chatterCount,
   organic_viewers |-> Round(orgNum, n),
   artificial_viewers |-> Round(artNum, n),
   spike_detected |-> spike,
   raid_viewers |-> 0,
   host_viewers |-> 0]

\* lines 174-178: the snapshot, prev being the snapshot it replaces
ComposeStats(v, chatterCount, orgNum, artNum, n, spike, prev) ==
  [total_viewers |-> v, unique_chatters |-> chatterCount,
   organic_viewers |-> Round(orgNum, n),
   artificial_viewers |-> Round(artNum, n),
   spike_detected |-> spike,
   raid_viewers |-> prev.raid_viewers,
   host_viewers |-> prev.host_viewers]

\* lines 146-185: histories, averages, spike, classification, snapshot, row
ComputeStats(v, chatterCount) ==
  LET vh == PushHistory(viewerHistory, v)
      ch == PushHistory(chatterHistory, chatterCount)
      spike == Spike(v, vh)
      orgNum == OrganicNum(v, chatterCount, ch, spike)
      artNum == ArtificialNum(v, orgNum, ch)
      stats == ComposeStats(v, chatterCount, orgNum, artNum, Len(ch), spike, lastStats)
  IN /\ viewerHistory' = vh
     /\ chatterHistory' = ch
     /\ locals' = [viewersSum |-> SumSeq(vh), viewersLen |-> Len(vh),
                   chattersSum |-> SumSeq(ch), chattersLen |-> Len(ch),
                   dynamicThresh |-> dynamicThresh(ch),
                   organicNum |-> orgNum, artificialNum |-> artNum]
     /\ anomalyCounter' = IF spike THEN anomalyCounter + 1 ELSE anomalyCounter
     /\ lastStats' = stats
     /\ dbRows' = Append(dbRows, <<now, v, chatterCount, stats.organic_viewers,
                                   stats.artificial_viewers, IF spike THEN 1 ELSE 0,
                                   stats.raid_viewers, stats.host_viewers>>)

\* lines 144-188: everything after `await fetchViewerCount()`, v being `viewers`
CycleTail(i, v) ==
  LET chatterCount == Cardinality(cachedChatters)
      countedNow == {e \in live : toLowerCase(chatLog[e].user) \in cachedChatters}
  IN /\ ComputeStats(v, chatterCount)
     /\ cachedChatters' = clear(cachedChatters)
     /\ chatCountMap' = [u \in clear(DOMAIN chatCountMap) |-> chatCountMap[u]]
     /\ chatLog' = [e \in DOMAIN chatLog |->
                      IF e \in countedNow
                      THEN [chatLog[e] EXCEPT !.cycles = @ + 1] ELSE chatLog[e]]
     /\ live' = {e \in live : toLowerCase(chatLog[e].user) \in cachedChatters'}
     /\ lastCounted' = countedNow
     /\ cyc' = [cyc EXCEPT ![i] = CycleAt("done")]

\* lines 129-138: the TTL check; either the GET is sent and the callback
\* awaits it, or the cached count is published and the callback runs on
Gate(i, refreshed) ==
  LET ttl == ttlFor(viewers)
      g == [refreshed |-> refreshed, seen |-> viewers, ttl |-> ttl,
            gap |-> now - lastFetchedTime]
  IN IF CacheExpired(now, lastFetchedTime, ttl)
     THEN /\ cyc' = [cyc EXCEPT ![i] = [pc |-> "fetch", attempts |-> 1, wake |-> 0] @@ g]
          /\ UNCHANGED <<viewers, lastRead, cacheVars, cycleOut>>
     ELSE /\ viewers' = cachedViewerCount
          /\ lastRead' = [cycle |-> i, fetched |-> FALSE, value |-> cachedViewerCount] @@ g
          /\ UNCHANGED cacheVars
          /\ CycleTail(i, cachedViewerCount)

\* a rejected await: fetchViewerCount and the poll callback have no try/catch,
\* the rejection of the callback's promise is unhandled; whether that ends
\* the process depends on the --unhandled-rejections mode of the runtime
Reject(i) ==
  /\ cyc' = [cyc EXCEPT ![i] = CycleAt(IF cyc[i].pc = "refresh" THEN "refreshFailed"
                                                                ELSE "fetchFailed")]
  /\ alive' \in BOOLEAN
  /\ UNCHANGED <<cacheTTL, influx, lastRead, answered429, viewers, clockVars, tokenVars, cacheVars, cycleOut>>

\* ---------------------------------------------------------------- actions
\* setInterval(async () => { await fetchViewerCount(); ... }, interval)
Tick ==
  /\ alive
  /\ ticks < MaxTicks
  /\ now = nextTick
  /\ LET i == ticks + 1 IN
       /\ ticks' = i
       /\ nextTick' = nextTick + interval
       /\ now' = now
       /\ IF TokenStale(now, tokenExpiry)
          THEN /\ cyc' = [cyc EXCEPT ![i] = [@ EXCEPT !.pc = "refresh", !.attempts = 1,
                                                       !.refreshed = TRUE]]
               /\ UNCHANGED <<viewers, lastRead, cacheVars, cycleOut>>
          ELSE Gate(i, FALSE)
  /\ UNCHANGED <<alive, cacheTTL, influx, answered429, tokenVars>>

\* refreshAccessToken: the POST answers 2xx
RefreshOk(i) ==
  /\ alive
  /\ cyc[i].pc = "refresh"
  /\ \E e \in ExpiresInValues :
       /\ accessToken' = accessToken + 1
       /\ tokenExpiry' = ExpiryAfter(now, e)
       /\ lastRefresh' = [at |-> now, expires_in |-> e, token |-> accessToken + 1]
  /\ Gate(i, TRUE)
  /\ UNCHANGED <<alive, cacheTTL, influx, answered429, clockVars>>

\* fetchViewerCount: the GET answers 2xx
FetchOk(i) ==
  /\ alive
  /\ cyc[i].pc = "fetch"
  /\ \E resp \in StreamsData :
       /\ cachedViewerCount' = ViewerCountOf(resp)
       /\ lastFetchedTime' = now
       /\ viewers' = ViewerCountOf(resp)
       /\ lastRead' = [cycle |-> i, refreshed |-> cyc[i].refreshed, seen |-> cyc[i].seen,
                       ttl |-> cyc[i].ttl, gap |-> cyc[i].gap, fetched |-> TRUE,
                       value |-> ViewerCountOf(resp)]
       /\ CycleTail(i, ViewerCountOf(resp))
  /\ UNCHANGED <<alive, cacheTTL, influx, answered429, clockVars, tokenVars>>

\* response interceptor, err.response.status === 429: sleep minHelixInterval
Http429(i) ==
  /\ alive
  /\ cyc[i].pc \in {"refresh", "fetch"}
  /\ answered429 < Max429
  /\ answered429' = answered429 + 1
  /\ cyc' = [cyc EXCEPT ![i] = [@ EXCEPT
               !.pc = IF cyc[i].pc = "refresh" THEN "refreshSleep" ELSE "fetchSleep",
               !.wake = now + minHelixInterval]]
  /\ UNCHANGED <<alive, cacheTTL, influx, viewers, lastRead, clockVars, tokenVars, cacheVars, cycleOut>>

\* response interceptor, after the sleep: return axios(err.config)
RetryRequest(i) ==
  /\ alive
  /\ cyc[i].pc \in {"refreshSleep", "fetchSleep"}
  /\ now >= cyc[i].wake
  /\ cyc' = [cyc EXCEPT ![i] = [@ EXCEPT
               !.pc = IF cyc[i].pc = "refreshSleep" THEN "refresh" ELSE "fetch",
               !.attempts = @ + 1, !.wake = 0]]
  /\ UNCHANGED <<alive, cacheTTL, influx, answered429, viewers, lastRead, clockVars, tokenVars, cacheVars, cycleOut>>

\* response interceptor, any other failure: return Promise.reject(err)
HttpError(i) ==
  /\ alive
  /\ cyc[i].pc \in {"refresh", "fetch"}
  /\ Reject(i)

\* chatClient.on('chat', ...)
ChatEvent(u) ==
  /\ alive
  /\ Len(chatLog) < MaxChatEvents
  /\ LET uname == toLowerCase(u)
         seenBefore == uname \in DOMAIN chatCountMap
     IN IF uname \notin botBlacklist
        THEN /\ cachedChatters' = cachedChatters \cup {uname}
             /\ chatCountMap' = [k \in DOMAIN chatCountMap \cup {uname} |->
                                   IF k = uname
                                   THEN (IF seenBefore THEN chatCountMap[k] ELSE 0) + 1
                                   ELSE chatCountMap[k]]
             /\ live' = live \cup {Len(chatLog) + 1}
        ELSE UNCHANGED <<cachedChatters, chatCountMap, live>>
  /\ chatLog' = Append(chatLog, [user |-> u, cycles |-> 0])
  /\ UNCHANGED <<alive, cacheTTL, influx, answered429, viewers, cyc, lastRead, clockVars, tokenVars, cacheVars,
                 statsOut, lastCounted>>

\* chatClient.on('raided', ...): assigns the field of the current lastStats object
Raided(raidViewers) ==
  /\ alive
  /\ influx.events < MaxInfluxEvents
  /\ lastStats' = [lastStats EXCEPT !.raid_viewers = raidViewers]
  /\ influx' = [influx EXCEPT !.raid = raidViewers, !.kind = "raided", !.events = @ + 1]
  /\ UNCHANGED <<alive, cacheTTL, answered429, viewers, cyc, lastRead, clockVars, tokenVars, cacheVars,
                 viewerHistory, chatterHistory, locals, anomalyCounter, dbRows, chatVars>>

\* chatClient.on('hosted', ...)
Hosted(hostViewers) ==
  /\ alive
  /\ influx.events < MaxInfluxEvents
  /\ lastStats' = [lastStats EXCEPT !.host_viewers = hostViewers]
  /\ influx' = [influx EXCEPT !.host = hostViewers, !.kind = "hosted", !.events = @ + 1]
  /\ UNCHANGED <<alive, cacheTTL, answered429, viewers, cyc, lastRead, clockVars, tokenVars, cacheVars,
                 viewerHistory, chatterHistory, locals, anomalyCounter, dbRows, chatVars>>

\* app.get('/stats', (req, res) => res.json(lastStats)): the body of the response
StatsResponse == lastStats

\* time passes, up to the next timer that is due
Deadlines ==
  {cyc[i].wake : i \in {j \in Cycles : cyc[j].pc \in {"refreshSleep", "fetchSleep"}}}
    \cup (IF ticks < MaxTicks THEN {nextTick} ELSE {})

Advance ==
  /\ alive
  /\ \E t \in Deadlines :
       /\ t > now
       /\ t <= MaxTime
       /\ \A d \in Deadlines : t <= d
       /\ now' = t
  /\ UNCHANGED <<alive, cacheTTL, influx, answered429, viewers, cyc, lastRead, nextTick, ticks, tokenVars, cacheVars,
                 cycleOut>>

\* lines 146-185 run on one sample: the viewer count and the chatter count
\* a cycle would have found
Evaluate(sample) ==
  /\ viewers' = sample[1]
  /\ ComputeStats(sample[1], sample[2])
  /\ UNCHANGED <<alive, cacheTTL, influx, cyc, lastRead, answered429, clockVars, tokenVars,
                 cacheVars, chatVars>>

\* the poller and the two endpoints; the chat transport delivers nothing
NextPoll ==
  \/ Tick
  \/ \E i \in Cycles : RefreshOk(i)
  \/ \E i \in Cycles : FetchOk(i)
  \/ \E i \in Cycles : Http429(i)
  \/ \E i \in Cycles : RetryRequest(i)
  \/ \E i \in Cycles : HttpError(i)
  \/ Advance

SpecPoll == Init /\ [][NextPoll]_vars

\* the poller and the chat transport; the endpoints never answer 429
NextChat ==
  \/ Tick
  \/ \E i \in Cycles : RefreshOk(i)
  \/ \E i \in Cycles : FetchOk(i)
  \/ \E i \in Cycles : HttpError(i)
  \/ \E u \in Usernames : ChatEvent(u)
  \/ Advance

SpecChat == Init /\ [][NextChat]_vars

\* the poller and the raided / hosted events of the chat transport
NextInflux ==
  \/ Tick
  \/ \E i \in Cycles : RefreshOk(i)
  \/ \E i \in Cycles : FetchOk(i)
  \/ \E i \in Cycles : HttpError(i)
  \/ \E n \in InfluxCounts : Raided(n)
  \/ \E n \in InfluxCounts : Hosted(n)
  \/ Advance

SpecInflux == Init /\ [][NextInflux]_vars

\* the two histories over more than HISTORY_LENGTH successive samples
NextHistory == Len(dbRows) < MaxPushes /\ \E sample \in HistorySamples : Evaluate(sample)

SpecHistory == Init /\ [][NextHistory]_vars

\* the classifier over every short sequence of samples
NextStats == Len(dbRows) < MaxEvaluations /\ \E sample \in StatsSamples : Evaluate(sample)

SpecStats == Init /\ [][NextStats]_vars

\* ------------------------------------------------------------- properties
Pending == {"refresh", "refreshSleep", "fetch", "fetchSleep"}
AwaitingFetch == {"fetch", "fetchSleep"}
ShortOrLongTTL(v) == IF v > viewersThreshold THEN cacheTTLHighViewers ELSE cacheTTL
UserOf(e) == toLowerCase(chatLog[e].user)

\* C1: one axios call sends at most two requests: a 429 is retried once, a
\* second 429 is surfaced as an error and not retried again.
AtMostTwoRequestsPerCall == \A i \in Cycles : cyc[i].attempts <= 2

\* C2: a viewer-count read whose GET fails does not raise to the cycle, it
\* returns the cached count (no callback ends rejected at the GET).
StaleCountOnFetchFailure == \A i \in Cycles : cyc[i].pc # "fetchFailed"

\* C3: every tick runs a complete cycle, also when its refresh or its GET
\* fails: each callback that is no longer waiting has published a snapshot
\* (one stats row per settled callback).
EveryTickPublishes ==
  Len(dbRows) = Cardinality({i \in 1..ticks : cyc[i].pc \notin Pending})

\* C4: cycles never overlap: at most one callback is between its tick and
\* its completion at any time.
CyclesNeverOverlap == Cardinality({i \in Cycles : cyc[i].pc \in Pending}) <= 1

\* C5: the read of the participant-set size and the clearing of the set are
\* one step: no recorded chat event is counted by two cycles, none leaves the
\* accumulators without having been counted, a counted one is no longer held,
\* and the published unique_chatters is the number of distinct participants
\* of the events the cycle counted.
ChatEventsCountedOnce ==
  /\ \A e \in DOMAIN chatLog :
       /\ chatLog[e].cycles <= 1
       /\ (UserOf(e) \notin botBlacklist /\ chatLog[e].cycles = 0)
            => (e \in live /\ UserOf(e) \in cachedChatters)
       /\ chatLog[e].cycles = 1 => e \notin live
  /\ Len(dbRows) > 0
       => lastStats.unique_chatters = Cardinality({UserOf(e) : e \in lastCounted})

\* C5 witness: one event has been counted and cleared, another one was
\* recorded since and is held while a callback awaits its GET.
ChatEventAcrossCycles ==
  \E e, f \in DOMAIN chatLog, i \in Cycles :
    chatLog[e].cycles = 1 /\ f \in live /\ cyc[i].pc = "fetch"

\* C6: a read that reaches the TTL check at time t sends the GET iff
\* t - lastFetchedTime > ttl (not at equality), ttl being the short TTL when
\* the current viewer count exceeds viewersThreshold and the long one
\* otherwise; a read that sends none returns the count of the previous read.
TtlGate ==
  /\ \A i \in Cycles :
       cyc[i].pc \in AwaitingFetch => cyc[i].gap > ShortOrLongTTL(cyc[i].seen)
  /\ lastRead.cycle > 0 =>
       /\ lastRead.fetched <=> lastRead.gap > ShortOrLongTTL(lastRead.seen)
       /\ ~lastRead.fetched => lastRead.value = lastRead.seen

\* C6 witness: a read made exactly one TTL after the last fetch sent no GET.
ReadAtExactlyTtl ==
  /\ lastRead.cycle > 0 /\ ~lastRead.fetched
  /\ lastFetchedTime > 0
  /\ lastRead.gap = ShortOrLongTTL(lastRead.seen)

\* C7: the cached count is overwritten only when now - lastFetchedTime > ttl
\* holds at that moment, for the ttl of the read that overwrites it.
OverwriteOnlyWhenExpired ==
  [][\A i \in Cycles :
       (cyc[i].pc = "fetch" /\ cyc'[i].pc = "done")
         => now - lastFetchedTime > cyc[i].ttl]_vars

\* C8: the TTL of a read is that of the count published by the previous read
\* (short iff that count exceeds viewersThreshold), never that of the count
\* the read fetches; the count the next read sees is the one just published.
TtlFromPreviousCount ==
  /\ \A i \in Cycles :
       cyc[i].pc \in AwaitingFetch => cyc[i].ttl = ShortOrLongTTL(cyc[i].seen)
  /\ lastRead.cycle > 0 => lastRead.ttl = ShortOrLongTTL(lastRead.seen)
  /\ viewers = lastRead.value

\* C8 witness: a read that saw a count above the threshold used the short
\* TTL and fetched a count at or below the threshold.
DroppedUnderShortTtl ==
  /\ lastRead.fetched
  /\ lastRead.seen > viewersThreshold
  /\ lastRead.ttl = cacheTTLHighViewers
  /\ lastRead.value <= viewersThreshold
  /\ ShortOrLongTTL(viewers) = cacheTTL

\* C9: as long as no fetch has succeeded, every read that reaches the TTL
\* check sends the GET, whatever the TTL configuration: no read returns
\* without one.
FirstReadAlwaysFetches == lastFetchedTime = 0 => lastRead.cycle = 0

\* C10 as claimed: a credential refresh is performed only in a read that
\* then sends the GET; a read with a fresh cache never refreshes.
RefreshOnlyBeforeRequest ==
  (lastRead.cycle > 0 /\ lastRead.refreshed /\ lastFetchedTime > 0) => lastRead.fetched

\* C10 amended: the refresh POST is first sent only as the first step of a
\* read, before the TTL check, exactly when now > tokenExpiry - 60000 there;
\* later it is sent again only by the 429 retry.
RefreshAtReadStart ==
  [][\A i \in Cycles :
       /\ (cyc[i].pc = "idle" /\ cyc'[i].pc # "idle")
            => (cyc'[i].pc = "refresh" <=> now > tokenExpiry - 60000)
       /\ (cyc[i].pc # "refresh" /\ cyc'[i].pc = "refresh")
            => cyc[i].pc \in {"idle", "refreshSleep"}]_vars

\* C10 witness: a read refreshed the credential and then found the cache,
\* filled by an earlier fetch, still fresh.
RefreshWithFreshCache ==
  /\ lastRead.cycle > 0 /\ lastRead.refreshed /\ ~lastRead.fetched
  /\ lastFetchedTime > 0

\* C11: at the credential check the refresh POST is sent iff the expiry is
\* unset or now > tokenExpiry - 60 s; a successful refresh sets the token and
\* tokenExpiry = now + lifetime, a rejected one leaves both unchanged; so the
\* expiry is unset or the one set by the most recent successful refresh.
CredentialFollowsLastRefresh ==
  /\ [](IF lastRefresh.token = 0
        THEN accessToken = 0 /\ tokenExpiry = 0
        ELSE /\ accessToken = lastRefresh.token
             /\ tokenExpiry = lastRefresh.at + 1000 * lastRefresh.expires_in)
  /\ [][\A i \in Cycles :
          /\ (cyc[i].pc = "idle" /\ cyc'[i].pc # "idle")
               => (cyc'[i].pc = "refresh"
                     <=> (tokenExpiry = 0 \/ now > tokenExpiry - 60000))
          /\ (cyc[i].pc = "refresh" /\ cyc'[i].pc \in {"refreshFailed", "refreshSleep"})
               => (accessToken' = accessToken /\ tokenExpiry' = tokenExpiry)
          /\ (cyc[i].pc = "refresh" /\ cyc'[i].pc \in {"fetch", "done"})
               => (lastRefresh'.at = now /\ lastRefresh'.token # accessToken)]_vars

\* C11 witness: a refresh has succeeded and a later callback's refresh was
\* rejected; the credential is the one of the successful refresh.
RejectedRefreshKeepsCredential ==
  /\ lastRefresh.token > 0
  /\ \E i \in Cycles : cyc[i].pc = "refreshFailed" /\ lastRefresh.at < Now0 + i * interval

\* C12: after N cycles each history holds exactly the last min(N, 10) samples
\* in arrival order, and the averages of a cycle are the arithmetic means of
\* exactly those samples, the cycle's own included; never of an empty history.
HistoryHoldsLastSamples ==
  LET N == Len(dbRows)
      k == IF N < 10 THEN N ELSE 10
      viewersOf(j) == dbRows[N - k + j][2]
      chattersOf(j) == dbRows[N - k + j][3]
      sumTo[j \in 0..k] == IF j = 0 THEN <<0, 0>>
                            ELSE <<sumTo[j - 1][1] + viewersOf(j), sumTo[j - 1][2] + chattersOf(j)>>
  IN /\ Len(viewerHistory) = k
     /\ Len(chatterHistory) = k
     /\ \A j \in 1..k : viewerHistory[j] = viewersOf(j) /\ chatterHistory[j] = chattersOf(j)
     /\ N > 0 => /\ locals.viewersLen = k /\ locals.chattersLen = k /\ k > 0
                 /\ locals.viewersSum = sumTo[k][1]
                 /\ locals.chattersSum = sumTo[k][2]
                 /\ viewerHistory[k] = lastStats.total_viewers
                 /\ chatterHistory[k] = lastStats.unique_chatters

\* C12 witness: an eleventh sample has evicted the first one, which differed
\* from the sample that is the oldest now.
OldestSampleEvicted ==
  /\ Len(dbRows) > HISTORY_LENGTH
  /\ dbRows[1][2] # viewerHistory[1]
  /\ dbRows[Len(dbRows)][2] # dbRows[Len(dbRows) - 1][2]

\* C13: with or without a spike, organic <= viewers and
\* artificial = max(0, viewers - organic) >= 0; the published organic_viewers
\* never exceeds total_viewers.  (organic and artificial are locals.organicNum
\* and locals.artificialNum over locals.chattersLen.)
OrganicNeverExceedsViewers ==
  Len(dbRows) > 0 =>
    LET n == locals.chattersLen
        v == lastStats.total_viewers
    IN /\ locals.organicNum >= 0
       /\ locals.organicNum <= v * n
       /\ locals.artificialNum >= 0
       /\ locals.artificialNum = (IF v * n > locals.organicNum THEN v * n - locals.organicNum ELSE 0)
       /\ lastStats.organic_viewers <= lastStats.total_viewers
       /\ lastStats.artificial_viewers >= 0

\* C13 witness: a spike whose chatter term is above the viewer count, so that
\* the cap is what keeps organic at viewers.
SpikeCappedAtViewers ==
  /\ Len(dbRows) > 0
  /\ lastStats.spike_detected
  /\ locals.chattersSum * locals.dynamicThresh > lastStats.total_viewers * locals.chattersLen
  /\ lastStats.organic_viewers = lastStats.total_viewers

SpikeExactlyAboveOneAndAHalf ==
  Len(dbRows) > 0 =>
    /\ lastStats.spike_detected
         <=> 2 * lastStats.total_viewers * locals.viewersLen > 3 * locals.viewersSum
    /\ viewerHistory[Len(viewerHistory)] = lastStats.total_viewers
    /\ Len(dbRows) = 1 => ~lastStats.spike_detected
    /\ \A v1, v2 \in {0, 50, 75, 500, 1000} :
         (v1 <= v2 /\ Spike(v1, viewerHistory)) => Spike(v2, viewerHistory)

\* C15 witness: a count above the average of its history but not above 1.5
\* times it, after a cycle that did report a spike.
AboveAverageWithoutSpike ==
  /\ Len(dbRows) > 1
  /\ anomalyCounter > 0
  /\ ~lastStats.spike_detected
  /\ lastStats.total_viewers * locals.viewersLen > locals.viewersSum

SameIgnoringCase(a, b) ==
  a = b \/ {a, b} = {"Alice", "alice"} \/ {a, b} = {"NightBot", "nightbot"}

Blacklisted(u) == \E b \in BlacklistConfig : SameIgnoringCase(u, b)

\* C16: an identifier equal to a blacklist entry ignoring case is never in
\* the participant set or the message-count map and never contributes to
\* unique_chatters; every other identifier is recorded under its lower-cased
\* form, with a message counter that grows by one per event.
BlacklistedNeverRecorded ==
  /\ \A e \in DOMAIN chatLog :
       IF Blacklisted(chatLog[e].user)
       THEN chatLog[e].cycles = 0 /\ e \notin lastCounted
       ELSE chatLog[e].cycles = 0
              => \E u \in cachedChatters : SameIgnoringCase(chatLog[e].user, u)
  /\ \A u \in cachedChatters : ~Blacklisted(u) /\ u \in {"alice", "nightbot"}
  /\ DOMAIN chatCountMap = cachedChatters
  /\ \A u \in cachedChatters :
       chatCountMap[u] = Cardinality({e \in DOMAIN chatLog :
                                       /\ chatLog[e].cycles = 0
                                       /\ SameIgnoringCase(chatLog[e].user, u)})
  /\ Len(dbRows) > 0 =>
       lastStats.unique_chatters <= Cardinality({e \in lastCounted : ~Blacklisted(chatLog[e].user)})

\* C16 witness: the blacklisted account has written in a spelling that
\* differs from the configured one, and another chatter in capitals.
BlacklistedWroteInOtherCase ==
  /\ \E e \in DOMAIN chatLog : chatLog[e].user = "nightbot" /\ chatLog[e].user \notin BlacklistConfig
  /\ \E e \in DOMAIN chatLog : chatLog[e].user = "Alice"
  /\ "alice" \in cachedChatters
  /\ chatCountMap["alice"] = 1

\* what a step may do to the two sticky fields
InfluxStep ==
  LET published == \E i \in Cycles : cyc[i].pc # "done" /\ cyc'[i].pc = "done"
      delivered(kind) == influx'.events # influx.events /\ influx'.kind = kind
  IN /\ published => /\ lastStats'.raid_viewers = lastStats.raid_viewers
                      /\ lastStats'.host_viewers = lastStats.host_viewers
                      /\ dbRows'[Len(dbRows')][7] = influx.raid
                      /\ dbRows'[Len(dbRows')][8] = influx.host
     /\ delivered("raided")
          => /\ lastStats'.raid_viewers = influx'.raid
             /\ [lastStats' EXCEPT !.raid_viewers = 0] = [lastStats EXCEPT !.raid_viewers = 0]
     /\ delivered("hosted")
          => /\ lastStats'.host_viewers = influx'.host
             /\ [lastStats' EXCEPT !.host_viewers = 0] = [lastStats EXCEPT !.host_viewers = 0]

\* C17: raid_viewers and host_viewers are sticky: a cycle never changes them,
\* a raided event changes only raid_viewers and a hosted event only
\* host_viewers, and under every interleaving each published snapshot (and
\* its row) carries the count of the latest event of either kind.
InfluxCountsSticky ==
  /\ [](lastStats.raid_viewers = influx.raid /\ lastStats.host_viewers = influx.host)
  /\ [][InfluxStep]_vars

\* C17 witness: a raid has arrived while the callback awaited its GET, a
\* host before, and the snapshot published afterwards carries both counts.
RaidDuringAwaitPublished ==
  /\ Len(dbRows) = 1
  /\ influx.kind = "raided"
  /\ influx.host # 0
  /\ dbRows[1][7] = influx.raid
  /\ dbRows[1][8] = influx.host
  /\ lastStats.total_viewers > 0
  /\ lastStats.raid_viewers = influx.raid

\* C18: a published snapshot is immutable: once a cycle has published, no
\* field of the snapshot changes until a cycle replaces the whole snapshot;
\* in particular no event of the chat transport modifies it.
PublishedSnapshotImmutable ==
  [][(Len(dbRows) > 0 /\ lastStats' # lastStats)
       => \E i \in Cycles : cyc[i].pc # "done" /\ cyc'[i].pc = "done"]_vars

\* C19: at every moment, also before the first cycle has completed, the
\* body of the stats response holds all seven fields and is the most
\* recently published snapshot.
StatsResponseComplete ==
  /\ DOMAIN StatsResponse = {"total_viewers", "unique_chatters", "organic_viewers",
                             "artificial_viewers", "spike_detected", "raid_viewers",
                             "host_viewers"}
  /\ Len(dbRows) > 0 =>
       LET row == dbRows[Len(dbRows)]
       IN /\ StatsResponse.total_viewers = row[2]
          /\ StatsResponse.unique_chatters = row[3]
          /\ StatsResponse.organic_viewers = row[4]
          /\ StatsResponse.artificial_viewers = row[5]
          /\ StatsResponse.spike_detected = (row[6] = 1)

\* C20: a failing cycle never prevents the following ones: after a callback
\* was rejected at its refresh or its GET the process still runs, so that
\* the next tick starts a cycle, and the histories are of equal length,
\* at most HISTORY_LENGTH long.
FailedCycleKeepsPolling ==
  (\E i \in Cycles : cyc[i].pc \in {"refreshFailed", "fetchFailed"})
    => /\ alive
       /\ Len(viewerHistory) = Len(chatterHistory)
       /\ Len(viewerHistory) <= HISTORY_LENGTH

\* C21: in every published snapshot the independently rounded parts add up:
\* organic_viewers + artificial_viewers = total_viewers.
RoundedPartsAddUp ==
  Len(dbRows) > 0 =>
    lastStats.organic_viewers + lastStats.artificial_viewers = lastStats.total_viewers

====
